---- MODULE Spec2Model ----
(***************************************************************************)
(* The call-dispatch bridge of HPy:                                        *)
(*   hpy/devel/src/runtime/ctx_call.c   ctx_CallTupleDict, ctx_Call,       *)
(*                                      ctx_CallMethod                     *)
(*   hpy/universal/src/ctx_meth.c       ctx_CallRealFunctionFromTrampoline *)
(* Every operation is synchronous and keeps no state between calls, so the *)
(* state is the build configuration plus the record of the last operation: *)
(* its inputs, what it returned, the host error indicator it left, and the *)
(* ordered trace of the host/native primitives it invoked.                 *)
(***************************************************************************)
EXTENDS Integers, Sequences, FiniteSets

VARIABLES
    legacy,   \* build: PY_VERSION_HEX < 0x03090000
    ndebug,   \* build: NDEBUG defined, assert() expands to nothing
    op,       \* the operation that ran last
    inp,      \* its inputs
    status,   \* "idle", "returned", "aborted" (abort()/failed assert), "crashed"
    ret,      \* what it returned
    err,      \* the host error indicator it left
    trace,    \* the host/native primitives it invoked, in order
    count,    \* the size it computed for its transient buffer
    staged    \* the transient buffer as it filled it

vars == <<legacy, ndebug, op, inp, status, ret, err, trace, count, staged>>

----------------------------------------------------------------------------
(* Bounds of the model *)

\* longest positional-argument list that is enumerated
MaxArgs == 3
\* longest keyword-name tuple that is enumerated
MaxKw == 2
\* integer payloads of argument objects are 0..MaxInt
MaxInt == 1
\* width of size_t in bits (scaled down; arithmetic is modulo 2^SizeBits)
SizeBits == 8

SIZE_MAX == 2^SizeBits - 1

----------------------------------------------------------------------------
(* Native objects of the host runtime *)

NULL == [type |-> "NULL"]
PyLong(n) == [type |-> "int", n |-> n]
Str(s) == [type |-> "str", s |-> s]
Tuple(items) == [type |-> "tuple", items |-> items]
List(items) == [type |-> "list", items |-> items]
\* a dict is its ordered sequence of <<key, value>> pairs
Dict(pairs) == [type |-> "dict", pairs |-> pairs]
Function(name) == [type |-> "function", name |-> name]
Instance(attrs) == [type |-> "object", attrs |-> attrs]
BoundMethod(self, name) == [type |-> "method", self |-> self, name |-> name]
\* the value a successful call produces: it records everything the callee saw
Result(callee, pos, kw) ==
    [type |-> "result", callee |-> callee, pos |-> pos, kw |-> kw]

NoErr == [kind |-> "none"]
Exc(kind, msg) == [kind |-> kind, msg |-> msg]

\* all sequences over S of length exactly n
RECURSIVE SeqsOfLen(_, _)
SeqsOfLen(S, n) ==
    IF n = 0 THEN {<<>>}
    ELSE {Append(s, x) : s \in SeqsOfLen(S, n - 1), x \in S}

SeqsUpTo(S, n) == UNION {SeqsOfLen(S, k) : k \in 0..n}

Ints == {PyLong(v) : v \in 0..MaxInt}

KwPool == <<"k1", "k2", "k3", "k4">>

----------------------------------------------------------------------------
(* Handle translation layer (handles.h) *)

HPy_NULL == [_i |-> NULL]
_py2h(obj) == [_i |-> obj]
_h2py(h) == h._i
HPy_IsNull(h) == h._i = NULL

----------------------------------------------------------------------------
(* Host runtime primitives consumed by the bridge *)

HostRet(obj, e, crash) == [obj |-> obj, err |-> e, crash |-> crash]

Raises(callee) ==
    \/ callee.type = "function" /\ callee.name = "raiser"
    \/ callee.type = "method" /\ callee.name = "boom"

IsCallable(callee) == callee.type \in {"function", "method"}

\* the callee runs with positional arguments pos and keyword pairs kw
Apply(callee, pos, kw) ==
    IF ~IsCallable(callee)
    THEN HostRet(NULL, Exc("TypeError", "object is not callable"), FALSE)
    ELSE IF Raises(callee)
    THEN HostRet(NULL, Exc("RuntimeError", "raised by callee"), FALSE)
    ELSE HostRet(Result(callee, pos, kw), NoErr, FALSE)

PyTuple_Check(o) == o.type = "tuple"
PyDict_Check(o) == o.type = "dict"
PyTuple_GET_SIZE(o) == Len(o.items)
PyTuple_GET_ITEM(o, i) == o.items[i + 1]

\* PyObject_CallObject(callable, args): a NULL args means no arguments
PyObject_CallObject(callable, args) ==
    IF args = NULL THEN Apply(callable, <<>>, <<>>)
    ELSE IF ~PyTuple_Check(args)
    THEN HostRet(NULL, Exc("TypeError", "argument list must be a tuple"), FALSE)
    ELSE Apply(callable, args.items, <<>>)

\* PyObject_Call(callable, args, kwargs): args must be a tuple, never NULL
PyObject_Call(callable, args, kwargs) ==
    IF args = NULL THEN HostRet(NULL, NoErr, TRUE)
    ELSE IF ~PyTuple_Check(args)
    THEN HostRet(NULL, Exc("TypeError", "argument list must be a tuple"), FALSE)
    ELSE IF kwargs # NULL /\ ~PyDict_Check(kwargs)
    THEN HostRet(NULL, Exc("TypeError", "keyword list must be a dictionary"), FALSE)
    ELSE Apply(callable, args.items, IF kwargs = NULL THEN <<>> ELSE kwargs.pairs)

----------------------------------------------------------------------------
(* Outcome of one operation *)

OutcomeBuf(st, r, e, tr, cnt, buf) ==
    [status |-> st, ret |-> r, err |-> e, trace |-> tr, count |-> cnt, staged |-> buf]

Outcome(st, r, e, tr) == OutcomeBuf(st, r, e, tr, 0, <<>>)

\* the outcome of returning the host result hr after the events tr
Returned(hr, tr) ==
    IF hr.crash THEN Outcome("crashed", HPy_NULL, hr.err, tr)
    ELSE Outcome("returned", _py2h(hr.obj), hr.err, tr)

CallEv(prim, callee, args, kw) ==
    [ev |-> prim, callee |-> callee, args |-> args, kw |-> kw]

----------------------------------------------------------------------------
(* ctx_CallTupleDict *)

HPyTuple_Check(h) == PyTuple_Check(_h2py(h))
HPyDict_Check(h) == PyDict_Check(_h2py(h))

\* HPyTuple_FromArray(ctx, NULL, 0): a new handle on an empty tuple
HPyTuple_FromArray_empty == _py2h(Tuple(<<>>))

\* a variant that hands the null args on instead of the empty tuple
CallWithEmptyTuple_nullArgs(callable, kw) ==
    LET empty_tuple == HPyTuple_FromArray_empty
    IN Returned(PyObject_Call(_h2py(callable), _h2py(HPy_NULL), _h2py(kw)),
                << [ev |-> "HPyTuple_FromArray", h |-> empty_tuple],
                   CallEv("PyObject_Call", _h2py(callable), _h2py(HPy_NULL),
                          _h2py(kw)),
                   [ev |-> "HPy_Close", h |-> empty_tuple] >>)

\* a variant that closes the empty tuple only when the call succeeded
CallWithEmptyTuple_leak(callable, kw) ==
    LET empty_tuple == HPyTuple_FromArray_empty
        hr == PyObject_Call(_h2py(callable), _h2py(empty_tuple), _h2py(kw))
        before == << [ev |-> "HPyTuple_FromArray", h |-> empty_tuple],
                     CallEv("PyObject_Call", _h2py(callable), _h2py(empty_tuple),
                            _h2py(kw)) >>
    IN IF hr.obj = NULL THEN Returned(hr, before)
       ELSE Returned(hr, Append(before, [ev |-> "HPy_Close", h |-> empty_tuple]))

\* lines 32-39: args is null and kw is not, so an empty tuple is made for
\* PyObject_Call and closed after the call
CallWithEmptyTuple(callable, kw) ==
    LET empty_tuple == HPyTuple_FromArray_empty
    IN Returned(PyObject_Call(_h2py(callable), _h2py(empty_tuple), _h2py(kw)),
                << [ev |-> "HPyTuple_FromArray", h |-> empty_tuple],
                   CallEv("PyObject_Call", _h2py(callable), _h2py(empty_tuple),
                          _h2py(kw)),
                   [ev |-> "HPy_Close", h |-> empty_tuple] >>)

\* a variant without the check of args
ctx_CallTupleDict_unchecked(callable, args, kw) ==
    IF ~HPy_IsNull(kw) /\ ~HPyDict_Check(kw)
    THEN Outcome("returned", HPy_NULL,
                 Exc("TypeError",
                     "HPy_CallTupleDict requires kw to be a dict or null handle"),
                 <<>>)
    ELSE IF HPy_IsNull(kw)
    THEN Returned(PyObject_CallObject(_h2py(callable), _h2py(args)),
                  <<CallEv("PyObject_CallObject", _h2py(callable), _h2py(args), NULL)>>)
    ELSE Returned(PyObject_Call(_h2py(callable), _h2py(args), _h2py(kw)),
                  <<CallEv("PyObject_Call", _h2py(callable), _h2py(args), _h2py(kw))>>)

ctx_CallTupleDict(callable, args, kw) ==
    IF ~HPy_IsNull(args) /\ ~HPyTuple_Check(args)
    THEN Outcome("returned", HPy_NULL,
                 Exc("TypeError",
                     "HPy_CallTupleDict requires args to be a tuple or null handle"),
                 <<>>)
    ELSE IF ~HPy_IsNull(kw) /\ ~HPyDict_Check(kw)
    THEN Outcome("returned", HPy_NULL,
                 Exc("TypeError",
                     "HPy_CallTupleDict requires kw to be a dict or null handle"),
                 <<>>)
    ELSE IF HPy_IsNull(kw)
    THEN Returned(PyObject_CallObject(_h2py(callable), _h2py(args)),
                  <<CallEv("PyObject_CallObject", _h2py(callable), _h2py(args), NULL)>>)
    ELSE IF ~HPy_IsNull(args)
    THEN Returned(PyObject_Call(_h2py(callable), _h2py(args), _h2py(kw)),
                  <<CallEv("PyObject_Call", _h2py(callable), _h2py(args), _h2py(kw))>>)
    ELSE CallWithEmptyTuple(callable, kw)

----------------------------------------------------------------------------
(* Host vector-call primitives *)

\* the keyword pairs of a vector call: name i goes with buffer slot nargs + i
KwPairs(buf, nargs, kwnames) ==
    IF kwnames = NULL THEN <<>>
    ELSE [i \in 1..PyTuple_GET_SIZE(kwnames) |->
             <<PyTuple_GET_ITEM(kwnames, i - 1), buf[nargs + i]>>]

\* slots the host reads from the buffer of a vector call
VectorcallReads(nargs, kwnames) ==
    nargs + (IF kwnames = NULL THEN 0 ELSE PyTuple_GET_SIZE(kwnames))

\* PyObject_Vectorcall / _PyObject_Vectorcall (callable, args, nargsf, kwnames);
\* reading past the end of the buffer is undefined (reported as crash here)
PyObject_Vectorcall(callable, buf, nargs, kwnames) ==
    IF VectorcallReads(nargs, kwnames) > Len(buf) THEN HostRet(NULL, NoErr, TRUE)
    ELSE Apply(callable, SubSeq(buf, 1, nargs), KwPairs(buf, nargs, kwnames))

\* PyObject_GetAttr(o, name)
PyObject_GetAttr(o, name) ==
    IF o.type = "object" /\ name.s \in o.attrs
    THEN HostRet(BoundMethod(o, name.s), NoErr, FALSE)
    ELSE HostRet(NULL, Exc("AttributeError", "no such attribute"), FALSE)

\* PyObject_VectorcallMethod(name, args, nargsf, kwnames): args[0] is the
\* receiver, the method found on it gets args[1..nargs-1] and the keywords
PyObject_VectorcallMethod(name, buf, nargs, kwnames) ==
    IF nargs < 1 \/ VectorcallReads(nargs, kwnames) > Len(buf)
    THEN HostRet(NULL, NoErr, TRUE)
    ELSE LET m == PyObject_GetAttr(buf[1], name)
         IN IF m.obj = NULL THEN m
            ELSE Apply(m.obj, SubSeq(buf, 2, nargs), KwPairs(buf, nargs, kwnames))

----------------------------------------------------------------------------
(* ctx_Call and ctx_CallMethod *)

\* n_all_args = nargs + PyTuple_GET_SIZE(kwnames), in size_t arithmetic
n_all_args(nargs, h_kwnames) ==
    IF HPy_IsNull(h_kwnames) THEN nargs
    ELSE (nargs + PyTuple_GET_SIZE(_h2py(h_kwnames))) % (2^SizeBits)

\* assert(n_all_args >= nargs); it is compiled out when NDEBUG is defined
AssertFails(nd, nargs, h_kwnames) ==
    ~nd /\ ~HPy_IsNull(h_kwnames) /\ ~(n_all_args(nargs, h_kwnames) >= nargs)

\* a variant whose loop never advances in h_args
StageArgs_firstOnly(h_args, n) == [i \in 1..n |-> _h2py(h_args[1])]

\* for (i = 0; i < n_all_args; i++) args[i] = _h2py(h_args[i]);
StageArgs(h_args, n) == [i \in 1..n |-> _h2py(h_args[i])]

\* what an execution with undefined behaviour may do, after the events tr
Undefined(tr, cnt, buf) ==
    { OutcomeBuf("crashed", HPy_NULL, NoErr, tr, cnt, buf),
      OutcomeBuf("returned", HPy_NULL, Exc("SystemError", "garbage"), tr, cnt, buf),
      OutcomeBuf("returned", _py2h(PyLong(0)), NoErr, tr, cnt, buf) }

ReturnedBuf(hr, tr, cnt, buf) ==
    IF hr.crash THEN Undefined(tr, cnt, buf)
    ELSE {OutcomeBuf("returned", _py2h(hr.obj), hr.err, tr, cnt, buf)}

VecEv(prim, target, buf, nargs, kwnames) ==
    [ev |-> prim, callee |-> target, args |-> buf, nargs |-> nargs,
     kwnames |-> kwnames]

\* The set of outcomes of ctx_Call.  lg and nd are the build's selections;
\* callable is what the identifier of that name at line 66 denotes: it is not
\* a parameter or local of ctx_Call, so it is some object of the build
\* environment unrelated to h_callable.
ctx_Call(lg, nd, callable, h_callable, h_args, nargs, h_kwnames) ==
    LET kwnames == IF HPy_IsNull(h_kwnames) THEN NULL ELSE _h2py(h_kwnames)
        n == n_all_args(nargs, h_kwnames)
    IN IF AssertFails(nd, nargs, h_kwnames)
       THEN {Outcome("aborted", HPy_NULL, NoErr, <<>>)}
       ELSE IF n > Len(h_args)
       THEN Undefined(<<>>, n, <<>>)
       ELSE LET args == StageArgs(h_args, n)
                target == IF lg THEN _h2py(callable) ELSE _h2py(h_callable)
                prim == IF lg THEN "_PyObject_Vectorcall" ELSE "PyObject_Vectorcall"
            IN ReturnedBuf(PyObject_Vectorcall(target, args, nargs, kwnames),
                           <<VecEv(prim, target, args, nargs, kwnames)>>,
                           n, args)

\* The set of outcomes of ctx_CallMethod.
ctx_CallMethod(lg, nd, h_name, h_args, nargs, h_kwnames) ==
    LET kwnames == IF HPy_IsNull(h_kwnames) THEN NULL ELSE _h2py(h_kwnames)
        n == n_all_args(nargs, h_kwnames)
    IN IF AssertFails(nd, nargs, h_kwnames)
       THEN {Outcome("aborted", HPy_NULL, NoErr, <<>>)}
       ELSE IF n > Len(h_args)
       THEN Undefined(<<>>, n, <<>>)
       ELSE LET args == StageArgs(h_args, n)
            IN IF lg
               THEN IF n = 0
                    THEN Undefined(<<>>, n, args)
                    ELSE LET getattr == [ev |-> "PyObject_GetAttr", o |-> args[1],
                                         name |-> _h2py(h_name)]
                             method == PyObject_GetAttr(args[1], _h2py(h_name))
                         IN IF method.obj = NULL
                            THEN {OutcomeBuf("returned", HPy_NULL, method.err,
                                             <<getattr>>, n, args)}
                            ELSE ReturnedBuf(
                                   PyObject_Vectorcall(method.obj, args, nargs, NULL),
                                   << getattr,
                                      VecEv("_PyObject_Vectorcall", method.obj, args,
                                            nargs, NULL),
                                      [ev |-> "Py_DECREF", o |-> method.obj] >>,
                                   n, args)
               ELSE ReturnedBuf(
                      PyObject_VectorcallMethod(_h2py(h_name), args, nargs, kwnames),
                      <<VecEv("PyObject_VectorcallMethod", _h2py(h_name), args,
                              nargs, kwnames)>>,
                      n, args)

----------------------------------------------------------------------------
(* Native extension functions reached through the trampoline *)

RECURSIVE SumHandles(_, _)
SumHandles(h_args, n) ==
    IF n = 0 THEN 0 ELSE SumHandles(h_args, n - 1) + _h2py(h_args[n]).n

\* what the native function func returns when entered with the receiver
\* handle h_self and the further arguments rest of its calling convention:
\* "fail" signals a failure, "sum" adds up the integers of a variable-argument
\* call, anything else returns a value recording all it was given
NativeCall(func, h_self, rest) ==
    IF func = "fail"
    THEN [h |-> HPy_NULL, err |-> Exc("ValueError", "raised by native function")]
    ELSE IF func = "sum"
    THEN [h |-> _py2h(PyLong(SumHandles(rest[1], rest[2]))), err |-> NoErr]
    ELSE [h |-> _py2h(Result(func, <<h_self>> \o rest, <<>>)), err |-> NoErr]

NativeEv(shape, func, h_self, rest) ==
    [ev |-> "native", shape |-> shape, func |-> func, h_self |-> h_self,
     rest |-> rest]

----------------------------------------------------------------------------
(* ctx_CallRealFunctionFromTrampoline *)

\* a variant that fills the buffer from the last item down
StageHandles_reversed(args, nargs) ==
    [i \in 1..nargs |-> _py2h(PyTuple_GET_ITEM(args, nargs - i))]

\* h_args[i] = _py2h(PyTuple_GET_ITEM(args, i)) for 0 <= i < nargs
StageHandles(args, nargs) == [i \in 1..nargs |-> _py2h(PyTuple_GET_ITEM(args, i - 1))]

\* a variant that unpacks a one-element tuple
SingleArg_element(args) ==
    IF PyTuple_Check(args) /\ PyTuple_GET_SIZE(args) = 1
    THEN _py2h(PyTuple_GET_ITEM(args, 0))
    ELSE _py2h(args)

\* the third argument handed to a HPyMeth_O function
SingleArg(args) == _py2h(args)

\* a variant with the reserved keywords case of lines 27-37 switched on
ctx_CallRealFunctionFromTrampoline_keywords(self, args, kw, func, sig) ==
    IF sig = "HPyMeth_NOARGS"
    THEN LET r == NativeCall(func, _py2h(self), <<>>)
         IN Outcome("returned", _h2py(r.h), r.err,
                    <<NativeEv("HPyMeth_noargs", func, _py2h(self), <<>>)>>)
    ELSE IF sig = "HPyMeth_O"
    THEN LET r == NativeCall(func, _py2h(self), <<_py2h(args)>>)
         IN Outcome("returned", _h2py(r.h), r.err,
                    <<NativeEv("HPyMeth_o", func, _py2h(self), <<_py2h(args)>>)>>)
    ELSE IF sig \in {"HPyMeth_VARARGS", "HPy_METH_KEYWORDS"}
    THEN LET nargs == PyTuple_GET_SIZE(args)
             h_args == [i \in 1..nargs |-> _py2h(PyTuple_GET_ITEM(args, i - 1))]
             r == NativeCall(func, _py2h(self), <<h_args, nargs>>)
         IN OutcomeBuf("returned", _h2py(r.h), r.err,
                       <<NativeEv("HPyMeth_varargs", func, _py2h(self),
                                  <<h_args, nargs>>)>>,
                       nargs, h_args)
    ELSE Outcome("aborted", NULL, NoErr, <<>>)

\* the trampoline returns a native reference, so ret holds _h2py of the handle
ctx_CallRealFunctionFromTrampoline(self, args, kw, func, sig) ==
    IF sig = "HPyMeth_NOARGS"
    THEN LET r == NativeCall(func, _py2h(self), <<>>)
         IN Outcome("returned", _h2py(r.h), r.err,
                    <<NativeEv("HPyMeth_noargs", func, _py2h(self), <<>>)>>)
    ELSE IF sig = "HPyMeth_O"
    THEN LET r == NativeCall(func, _py2h(self), <<SingleArg(args)>>)
         IN Outcome("returned", _h2py(r.h), r.err,
                    <<NativeEv("HPyMeth_o", func, _py2h(self), <<SingleArg(args)>>)>>)
    ELSE IF sig = "HPyMeth_VARARGS"
    THEN LET nargs == PyTuple_GET_SIZE(args)
             h_args == StageHandles(args, nargs)
             r == NativeCall(func, _py2h(self), <<h_args, nargs>>)
         IN OutcomeBuf("returned", _h2py(r.h), r.err,
                       <<NativeEv("HPyMeth_varargs", func, _py2h(self),
                                  <<h_args, nargs>>)>>,
                       nargs, h_args)
    ELSE Outcome("aborted", NULL, NoErr, <<>>)

----------------------------------------------------------------------------
(* Inputs *)

Callables == {Function("f"), Function("raiser")}

\* objects passed as args to ctx_CallTupleDict
ArgsObjs ==
    {NULL} \cup {Tuple(s) : s \in SeqsUpTo(Ints, MaxArgs)}
           \cup {List(<<>>), List(<<PyLong(0)>>), Dict(<<>>), PyLong(0)}

DictPairs(k) == [i \in 1..k |-> <<Str(KwPool[i]), PyLong(i % (MaxInt + 1))>>]

\* objects passed as kw to ctx_CallTupleDict
KwObjs ==
    {NULL} \cup {Dict(DictPairs(k)) : k \in 0..MaxKw}
           \cup {List(<<>>), Tuple(<<>>), PyLong(0)}

\* handles found in argument arrays
ArgHandles == {_py2h(o) : o \in Ints}

Receivers == {Instance({"m", "boom"}), PyLong(0)}

MethodNames == {Str("m"), Str("boom"), Str("missing")}

\* keyword-name tuples, and the null handle for "no keywords"
KwNameHandles ==
    {HPy_NULL} \cup {_py2h(Tuple([i \in 1..k |-> Str(KwPool[i])])) : k \in 0..MaxKw}

KwLen(h_kwnames) ==
    IF HPy_IsNull(h_kwnames) THEN 0 ELSE PyTuple_GET_SIZE(_h2py(h_kwnames))

\* nargs values: small ones, whose arrays are enumerated, and the largest
\* values of size_t, where nargs + K reaches and passes SIZE_MAX
NargsValues == (0..MaxArgs) \cup ((SIZE_MAX - MaxKw)..SIZE_MAX)

\* the argument arrays a caller passes with nargs and h_kwnames: nargs + K
\* handles when nargs is small; no array can hold what a huge nargs announces
ArgArrays(nargs, h_kwnames) ==
    IF nargs <= MaxArgs
    THEN SeqsOfLen(ArgHandles, nargs + KwLen(h_kwnames))
    ELSE {[i \in 1..(MaxArgs + KwLen(h_kwnames)) |-> _py2h(PyLong(0))]}

\* the same with a receiver in slot 0, which nargs counts
MethodArgArrays(nargs, h_kwnames) ==
    IF nargs = 0 THEN {}
    ELSE IF nargs <= MaxArgs
    THEN {<<_py2h(r)>> \o t : r \in Receivers,
                              t \in SeqsOfLen(ArgHandles, nargs - 1 + KwLen(h_kwnames))}
    ELSE {<<_py2h(r)>> \o t : r \in Receivers, t \in ArgArrays(nargs, h_kwnames)}

\* signature tags: the three of the switch, the reserved keywords variant
\* and a value outside the enumeration
Signatures ==
    {"HPyMeth_NOARGS", "HPyMeth_O", "HPyMeth_VARARGS", "HPy_METH_KEYWORDS", "other"}

\* native functions registered under a tag
NativeFuncs(sig) ==
    IF sig = "HPyMeth_VARARGS" THEN {"echo", "fail", "sum"} ELSE {"echo", "fail"}

ArgTuples == {Tuple(s) : s \in SeqsUpTo(Ints, MaxArgs)}

\* the args object the host passes for a tag: nothing for NOARGS, the single
\* argument whatever its type for O, the tuple of arguments otherwise
TrampolineArgs(sig) ==
    IF sig = "HPyMeth_NOARGS" THEN {NULL, Tuple(<<PyLong(0)>>)}
    ELSE IF sig = "HPyMeth_O" THEN Ints \cup ArgTuples \cup {List(<<PyLong(0)>>)}
    ELSE ArgTuples

TrampolineKw == {NULL, Dict(DictPairs(1))}

----------------------------------------------------------------------------
(* The state machine *)

Init ==
    /\ legacy \in BOOLEAN
    /\ ndebug \in BOOLEAN
    /\ op = "none"
    /\ inp = <<>>
    /\ status = "idle"
    /\ ret = HPy_NULL
    /\ err = NoErr
    /\ trace = <<>>
    /\ count = 0
    /\ staged = <<>>

Finish(name, inputs, out) ==
    /\ op' = name
    /\ inp' = inputs
    /\ status' = out.status
    /\ ret' = out.ret
    /\ err' = out.err
    /\ trace' = out.trace
    /\ count' = out.count
    /\ staged' = out.staged
    /\ UNCHANGED <<legacy, ndebug>>

CallTupleDict ==
    /\ status = "idle"
    /\ \E c \in Callables \cup {PyLong(0)}, a \in ArgsObjs, k \in KwObjs :
        Finish("CallTupleDict",
               [callable |-> _py2h(c), args |-> _py2h(a), kw |-> _py2h(k)],
               ctx_CallTupleDict(_py2h(c), _py2h(a), _py2h(k)))

Call ==
    /\ status = "idle"
    /\ \E c \in Callables, env \in Callables \cup {PyLong(0)}, n \in NargsValues,
       kn \in KwNameHandles :
        \E a \in ArgArrays(n, kn) :
            \E out \in ctx_Call(legacy, ndebug, _py2h(env), _py2h(c), a, n, kn) :
                Finish("Call",
                       [h_callable |-> _py2h(c), h_args |-> a, nargs |-> n,
                        h_kwnames |-> kn],
                       out)

CallMethod ==
    /\ status = "idle"
    /\ \E nm \in MethodNames, n \in NargsValues, kn \in KwNameHandles :
        \E a \in MethodArgArrays(n, kn) :
            \E out \in ctx_CallMethod(legacy, ndebug, _py2h(nm), a, n, kn) :
                Finish("CallMethod",
                       [h_name |-> _py2h(nm), h_args |-> a, nargs |-> n,
                        h_kwnames |-> kn],
                       out)

CallRealFunctionFromTrampoline ==
    /\ status = "idle"
    /\ \E sig \in Signatures, self \in Receivers, kw \in TrampolineKw :
        \E func \in NativeFuncs(sig), args \in TrampolineArgs(sig) :
            Finish("CallRealFunctionFromTrampoline",
                   [self |-> self, args |-> args, kw |-> kw, func |-> func,
                    sig |-> sig],
                   ctx_CallRealFunctionFromTrampoline(self, args, kw, func, sig))

\* the caller takes the result and clears the error indicator
ReturnToCaller ==
    /\ status = "returned"
    /\ op' = "none"
    /\ inp' = <<>>
    /\ status' = "idle"
    /\ ret' = HPy_NULL
    /\ err' = NoErr
    /\ trace' = <<>>
    /\ count' = 0
    /\ staged' = <<>>
    /\ UNCHANGED <<legacy, ndebug>>

Next ==
    \/ CallTupleDict
    \/ Call
    \/ CallMethod
    \/ CallRealFunctionFromTrampoline
    \/ ReturnToCaller

Spec == Init /\ [][Next]_vars

----------------------------------------------------------------------------
(* Properties *)

Events(name) == {i \in DOMAIN trace : trace[i].ev = name}

InvalidArgs == ~(inp.args._i.type \in {"NULL", "tuple"})
InvalidKw == ~(inp.kw._i.type \in {"NULL", "dict"})

ArgsMsg == "HPy_CallTupleDict requires args to be a tuple or null handle"
KwMsg == "HPy_CallTupleDict requires kw to be a dict or null handle"

\* C1: ctx_CallTupleDict given args that is neither null nor a tuple, or kw
\* that is neither null nor a dict, returns the null handle with a TypeError
\* set and invokes no host call primitive, whatever the other argument is;
\* when both are invalid the error reported is the one about args.
C1_ShapeErrorMakesNoCall ==
    (op = "CallTupleDict" /\ (InvalidArgs \/ InvalidKw)) =>
        /\ status = "returned"
        /\ ret = HPy_NULL
        /\ err.kind = "TypeError"
        /\ err.msg = (IF InvalidArgs THEN ArgsMsg ELSE KwMsg)
        /\ trace = <<>>

C1_Witness ==
    /\ op = "CallTupleDict"
    /\ inp.args._i.type = "list"
    /\ inp.kw._i.type = "list"
    /\ ret = HPy_NULL
    /\ err.kind = "TypeError"

\* the host call primitive invoked directly on the native objects, with an
\* empty tuple in place of null args when kw is given
DirectCall(callable, args, kw) ==
    IF kw = NULL THEN PyObject_CallObject(callable, args)
    ELSE PyObject_Call(callable, IF args = NULL THEN Tuple(<<>>) ELSE args, kw)

\* C2: for args null or a tuple and kw null or a dict, ctx_CallTupleDict
\* returns the handle of what the direct call of the host primitive yields
\* and leaves the same error indicator, with an empty tuple standing for null
\* args when kw is not null and null args passed on unchanged when kw is null.
C2_SameAsDirectCall ==
    (op = "CallTupleDict" /\ ~InvalidArgs /\ ~InvalidKw) =>
        LET direct == DirectCall(inp.callable._i, inp.args._i, inp.kw._i)
        IN /\ status = "returned"
           /\ ret = [_i |-> direct.obj]
           /\ err = direct.err
           /\ (inp.kw._i.type = "NULL" => trace[1].args = inp.args._i)

C2_Witness ==
    /\ op = "CallTupleDict"
    /\ inp.args._i.type = "NULL"
    /\ inp.kw._i.type = "dict"
    /\ Len(inp.kw._i.pairs) = 2
    /\ ret._i.type = "result"
    /\ ret._i.pos = <<>>
    /\ Len(ret._i.kw) = 2

\* C3: with args null and kw a dict, ctx_CallTupleDict makes one empty tuple,
\* calls with it, and closes that tuple exactly once, after the call and
\* before it returns, whether the call succeeded or failed; on every other
\* branch it makes and closes nothing.
C3_EmptyTupleClosedOnce ==
    op = "CallTupleDict" =>
        LET made == Events("HPyTuple_FromArray")
            closed == Events("HPy_Close")
            called == Events("PyObject_Call")
        IN IF inp.args._i.type = "NULL" /\ inp.kw._i.type = "dict"
           THEN /\ status = "returned"
                /\ Cardinality(made) = 1
                /\ Cardinality(called) = 1
                /\ Cardinality(closed) = 1
                /\ \E m \in made, c \in called, x \in closed :
                      /\ m < c
                      /\ c < x
                      /\ x = Len(trace)
                      /\ trace[m].h._i = Tuple(<<>>)
                      /\ trace[c].args = trace[m].h._i
                      /\ trace[x].h = trace[m].h
           ELSE made = {} /\ closed = {}

C3_Witness ==
    /\ op = "CallTupleDict"
    /\ inp.args._i.type = "NULL"
    /\ inp.kw._i.type = "dict"
    /\ ret = HPy_NULL
    /\ err.kind = "RuntimeError"
    /\ Events("HPy_Close") = {3}

KwCount == IF inp.h_kwnames._i.type = "NULL" THEN 0 ELSE Len(inp.h_kwnames._i.items)

\* C4: ctx_Call with nargs = N stages exactly N native references when
\* kwnames is null and N + K when kwnames has K names (the sum not
\* overflowing and the array holding that many handles); slot i of the buffer
\* is the translation of handle i, and the vector-call primitive is invoked
\* with that buffer, N and kwnames.
C4_StagesAllArguments ==
    (/\ op = "Call"
     /\ inp.nargs + KwCount <= SIZE_MAX
     /\ inp.nargs + KwCount <= Len(inp.h_args)) =>
        /\ count = inp.nargs + KwCount
        /\ Len(staged) = inp.nargs + KwCount
        /\ \A i \in 1..(inp.nargs + KwCount) : staged[i] = inp.h_args[i]._i
        /\ Len(trace) = 1
        /\ trace[1].ev \in {"PyObject_Vectorcall", "_PyObject_Vectorcall"}
        /\ trace[1].args = staged
        /\ trace[1].nargs = inp.nargs
        /\ trace[1].kwnames = inp.h_kwnames._i

C4_Witness ==
    /\ op = "Call"
    /\ inp.nargs = 2
    /\ KwCount = 2
    /\ inp.h_args[1] # inp.h_args[2]
    /\ Len(staged) = 4
    /\ status = "returned"
    /\ ret._i.type = "result"

SameResult(o) == o.status = status /\ o.ret = ret /\ o.err = err

\* C5: ctx_Call and ctx_CallMethod give the same returned value and failure
\* signal on the legacy path as on the modern vector-call path.
C5_LegacySameAsModern ==
    /\ op = "Call" =>
          \E o \in ctx_Call(FALSE, ndebug, inp.h_callable, inp.h_callable,
                            inp.h_args, inp.nargs, inp.h_kwnames) : SameResult(o)
    /\ op = "CallMethod" =>
          \E o \in ctx_CallMethod(FALSE, ndebug, inp.h_name, inp.h_args,
                                  inp.nargs, inp.h_kwnames) : SameResult(o)

\* looking the attribute up on the receiver and calling it with no arguments
LookupAndCall(receiver, name) ==
    LET m == PyObject_GetAttr(receiver, name)
    IN IF m.obj = NULL THEN m ELSE Apply(m.obj, <<>>, <<>>)

\* C6: ctx_CallMethod with only the receiver (nargs = 1) and null kwnames
\* gives what looking the attribute up on the receiver and calling it with no
\* further arguments gives; the method does not get the receiver as an
\* explicit positional argument.
C6_ReceiverOnlyCall ==
    (op = "CallMethod" /\ inp.nargs = 1 /\ inp.h_kwnames._i.type = "NULL") =>
        LET expect == LookupAndCall(inp.h_args[1]._i, inp.h_name._i)
        IN /\ status = "returned"
           /\ ret = [_i |-> expect.obj]
           /\ err = expect.err

Tramp == "CallRealFunctionFromTrampoline"

\* C7 as stated: with tag HPyMeth_O the third argument of the native function
\* is the translation of element 0 of the args container.
C7_ThirdArgIsElementZero ==
    (op = Tramp /\ inp.sig = "HPyMeth_O" /\ inp.args.type = "tuple"
       /\ Len(inp.args.items) = 1) =>
        trace[1].rest[1] = [_i |-> inp.args.items[1]]

\* C7 amended: with tag HPyMeth_O the native function is called once with the
\* translated receiver and, as third argument, the translation of the args
\* reference itself as the host supplied it; no element is taken out of it.
C7_ThirdArgIsArgsItself ==
    (op = Tramp /\ inp.sig = "HPyMeth_O") =>
        /\ Len(trace) = 1
        /\ trace[1].shape = "HPyMeth_o"
        /\ trace[1].func = inp.func
        /\ trace[1].h_self = [_i |-> inp.self]
        /\ trace[1].rest = << [_i |-> inp.args] >>

C7_Witness ==
    /\ op = Tramp
    /\ inp.sig = "HPyMeth_O"
    /\ inp.args = Tuple(<<PyLong(1)>>)
    /\ trace[1].rest[1]._i.type = "tuple"
    /\ ret.type = "result"

RECURSIVE SumItems(_)
SumItems(items) ==
    IF items = <<>> THEN 0 ELSE Head(items).n + SumItems(Tail(items))

\* C8: with tag HPyMeth_VARARGS the native function is called exactly once
\* with the translated receiver, a buffer and a count, the count being the
\* length of the args tuple and buffer slot i the translation of item i, in
\* order; the trampoline returns the native translation of the handle the
\* function returned, so a function adding up its integer arguments yields
\* their sum.
C8_VarargsBufferAndResult ==
    (op = Tramp /\ inp.sig = "HPyMeth_VARARGS") =>
        LET N == Len(inp.args.items)
        IN /\ Len(trace) = 1
           /\ trace[1].ev = "native"
           /\ trace[1].shape = "HPyMeth_varargs"
           /\ trace[1].func = inp.func
           /\ trace[1].h_self = [_i |-> inp.self]
           /\ Len(trace[1].rest) = 2
           /\ trace[1].rest[2] = N
           /\ Len(trace[1].rest[1]) = N
           /\ \A i \in 1..N : trace[1].rest[1][i] = [_i |-> inp.args.items[i]]
           /\ status = "returned"
           /\ (inp.func = "sum" => ret = PyLong(SumItems(inp.args.items)) /\ err = NoErr)
           /\ (inp.func = "fail" => ret = NULL /\ err.kind = "ValueError")
           /\ (inp.func = "echo" => ret.type = "result" /\ ret.pos[2] = trace[1].rest[1])

C8_Witness ==
    /\ op = Tramp
    /\ inp.sig = "HPyMeth_VARARGS"
    /\ inp.func = "sum"
    /\ inp.args = Tuple(<<PyLong(1), PyLong(0), PyLong(1)>>)
    /\ ret = PyLong(2)

\* C9: the trampoline dispatches on the tag once: for a tag other than
\* NOARGS, O and VARARGS (the reserved keywords variant included) it aborts,
\* the native function is never entered and nothing is returned; for each of
\* the three supported tags exactly one native call is made and it does not
\* abort.
C9_UnsupportedTagAborts ==
    op = Tramp =>
        IF inp.sig \in {"HPyMeth_NOARGS", "HPyMeth_O", "HPyMeth_VARARGS"}
        THEN /\ status = "returned"
             /\ Len(trace) = 1
             /\ trace[1].ev = "native"
             /\ trace[1].func = inp.func
        ELSE /\ status = "aborted"
             /\ trace = <<>>
             /\ ret = NULL

C9_Witness ==
    /\ op = Tramp
    /\ inp.sig = "HPy_METH_KEYWORDS"
    /\ status = "aborted"
    /\ trace = <<>>

\* C10: in ctx_Call and ctx_CallMethod with kwnames of length K the staged
\* count is nargs + K in size_t; when the true sum exceeds SIZE_MAX the check
\* n_all_args >= nargs fails and the operation ends fatally before staging
\* anything or making a host call; when it does not, the check passes and
\* n_all_args is nargs + K.
C10_OverflowIsFatal ==
    (op \in {"Call", "CallMethod"} /\ inp.h_kwnames._i.type = "tuple") =>
        IF inp.nargs + KwCount > SIZE_MAX
        THEN status = "aborted" /\ staged = <<>> /\ trace = <<>>
        ELSE status # "aborted" /\ count = inp.nargs + KwCount

====
